---- MODULE Spec2Model ----
(***************************************************************************)
(* Model of examples/deltaPulse.py: sdr_delta_pulse(N, amplitude, window,  *)
(* center).  Real numbers are fixed-point integers with Scale units per    *)
(* 1.0; complex samples are records [re, im]; arrays are functions over    *)
(* 0..n-1 so that indices are the source's indices.  One call is run as a  *)
(* sequence of steps, one per statement of the function body.              *)
(* Arithmetic is exact to the fixed-point grid; the rounding residue of a  *)
(* floating-point transform is not part of the model.                      *)
(***************************************************************************)
EXTENDS Integers, FiniteSets

\* ---------------------------------------------------------------- bounds
Scale == 1000
MaxN == 8
MaxNeg == 2
MaxAmpTenths == 12

\* ------------------------------------------------------------ arithmetic
AbsI(a) == IF a < 0 THEN 0 - a ELSE a
SgnI(a) == IF a < 0 THEN 0 - 1 ELSE 1

\* a / b rounded to nearest, symmetric about zero (b # 0)
RDiv(a, b) == SgnI(a) * SgnI(b) * ((2 * AbsI(a) + AbsI(b)) \div (2 * AbsI(b)))

\* product and quotient of two reals
FMul(a, b) == RDiv(a * b, Scale)
FDiv(a, b) == IF b = 0 THEN 0 ELSE RDiv(a * Scale, b)

\* the amplitude t/10
AmpOf(t) == RDiv(t * Scale, 10)

\* trigonometry is evaluated with one more decimal digit than the samples
TrigScale == 10 * Scale
PiT == RDiv(355 * TrigScale, 113)
Angle(m, n) == RDiv(2 * PiT * m, n)
CosSer(th) ==
    LET t2 == RDiv(th * th, TrigScale)
        t4 == RDiv(t2 * t2, TrigScale)
        t6 == RDiv(t4 * t2, TrigScale)
    IN  TrigScale - RDiv(t2, 2) + RDiv(t4, 24) - RDiv(t6, 720)
SinSer(th) ==
    LET t2 == RDiv(th * th, TrigScale)
        t3 == RDiv(t2 * th, TrigScale)
        t5 == RDiv(t3 * t2, TrigScale)
        t7 == RDiv(t5 * t2, TrigScale)
    IN  th - RDiv(t3, 6) + RDiv(t5, 120) - RDiv(t7, 5040)
\* cos and sin of 2*pi*r/n for 0 <= r/n <= 1/4, 1/2, 1
CosQuarter(r, n) == IF 8 * r > n THEN SinSer(Angle(n - 4 * r, 4 * n)) ELSE CosSer(Angle(r, n))
SinQuarter(r, n) == IF 8 * r > n THEN CosSer(Angle(n - 4 * r, 4 * n)) ELSE SinSer(Angle(r, n))
CosHalf(r, n) == IF 4 * r > n THEN 0 - CosQuarter(n - 2 * r, 2 * n) ELSE CosQuarter(r, n)
SinHalf(r, n) == IF 4 * r > n THEN SinQuarter(n - 2 * r, 2 * n) ELSE SinQuarter(r, n)
CosTurn(m, n) ==
    LET r == m % n
    IN  RDiv(IF 2 * r > n THEN CosHalf(n - r, n) ELSE CosHalf(r, n), 10)
SinTurn(m, n) ==
    LET r == m % n
    IN  RDiv(IF 2 * r > n THEN 0 - SinHalf(n - r, n) ELSE SinHalf(r, n), 10)

\* ------------------------------------------------------- complex samples
Cx(re, im) == [re |-> re, im |-> im]
CZero == Cx(0, 0)
CAdd(a, b) == Cx(a.re + b.re, a.im + b.im)
CMul(a, b) == Cx(FMul(a.re, b.re) - FMul(a.im, b.im), FMul(a.re, b.im) + FMul(a.im, b.re))
CNeg(a) == Cx(0 - a.re, 0 - a.im)
\* |z| = sqrt(re^2 + im^2), rounded down
CAbs(z) ==
    LET a == AbsI(z.re)
        b == AbsI(z.im)
        lo == IF a > b THEN a ELSE b
    IN  CHOOSE r \in lo..(a + b) : r * r <= a * a + b * b /\ (r + 1) * (r + 1) > a * a + b * b

\* ----------------------------------------------------------------- arrays
Len(a) == Cardinality(DOMAIN a)
Empty == [i \in {} |-> CZero]
Neg(a) == [i \in DOMAIN a |-> CNeg(a[i])]
SetMax(S) == CHOOSE m \in S : \A v \in S : v <= m
\* np.max(np.abs(x))
MaxAbs(a) == SetMax({CAbs(a[i]) : i \in DOMAIN a})

\* ------------------------------------------- the statements of the function
\* np.ones(N, dtype=np.complex64); a negative dimension raises ValueError
OnesRaises(n) == n < 0
\* mutant: only the DC bin is set
OnesDcOnly(n) == [i \in 0..(n - 1) |-> IF i = 0 THEN Cx(Scale, 0) ELSE CZero]
Ones(n) == [i \in 0..(n - 1) |-> Cx(Scale, 0)]

\* np.fft.ifft(X): x[t] = (1/n) * sum_k X[k] * exp(+2*pi*i*k*t/n);
\* fewer than one data point raises ValueError
\* mutant: the empty transform is not rejected
IfftRaisesNever(a) == FALSE
IfftRaises(a) == Len(a) < 1
Twiddle(m, n) == Cx(CosTurn(m, n), SinTurn(m, n))
RECURSIVE DftSum(_, _, _)
DftSum(a, t, k) ==
    IF k = 0 THEN CZero
    ELSE CAdd(DftSum(a, t, k - 1), CMul(a[k - 1], Twiddle((k - 1) * t, Len(a))))
Ifft(a) ==
    LET n == Len(a)
    IN  [t \in 0..(n - 1) |->
            LET s == DftSum(a, t, n) IN Cx(RDiv(s.re, n), RDiv(s.im, n))]

\* np.fft.fftshift(x): roll by n // 2, out[(j + n // 2) mod n] = x[j]
\* mutant: ifftshift's roll by -(n // 2) instead of fftshift's n // 2
FftShiftCeil(a) ==
    LET n == Len(a)
        shift == n - (n \div 2)
    IN  [i \in 0..(n - 1) |-> a[(i - shift + n) % n]]
FftShift(a) ==
    LET n == Len(a)
        shift == n \div 2
    IN  [i \in 0..(n - 1) |-> a[(i - shift + n) % n]]

\* if center: x = np.fft.fftshift(x)
\* mutant: the center flag is ignored
CenteredAlways(a, c) == FftShift(a)
Centered(a, c) == IF c THEN FftShift(a) ELSE a

\* x / m * amplitude
\* mutant: the target amplitude is not applied
RescaleNoAmplitude(a, m, amp) ==
    [i \in DOMAIN a |-> Cx(FDiv(a[i].re, m), FDiv(a[i].im, m))]
\* mutant: the magnitude of the amplitude is applied
RescaleAbs(a, m, amp) ==
    [i \in DOMAIN a |-> Cx(FMul(FDiv(a[i].re, m), AbsI(amp)), FMul(FDiv(a[i].im, m), AbsI(amp)))]
Rescale(a, m, amp) ==
    [i \in DOMAIN a |-> Cx(FMul(FDiv(a[i].re, m), amp), FMul(FDiv(a[i].im, m), amp))]

\* np.hanning(M): empty for M < 1, ones(1) for M = 1,
\* else 0.5 - 0.5*cos(2*pi*n/(M-1)) for 0 <= n <= M-1
Half == RDiv(Scale, 2)
\* mutant: no special case for a single tap, whose cosine argument is 0/0
HanningNoSingle(m) ==
    IF m < 1 THEN [i \in {} |-> 0]
    ELSE [i \in 0..(m - 1) |-> IF m = 1 THEN 0 ELSE Half - FMul(Half, CosTurn(i, m - 1))]
Hanning(m) ==
    IF m < 1 THEN [i \in {} |-> 0]
    ELSE IF m = 1 THEN [i \in {0} |-> Scale]
    ELSE [i \in 0..(m - 1) |-> Half - FMul(Half, CosTurn(i, m - 1))]

\* x * w
Times(a, v) == [i \in DOMAIN a |-> Cx(FMul(a[i].re, v[i]), FMul(a[i].im, v[i]))]

\* if max_val > 0
\* mutants: the renormalisation never runs, always runs
RenormGuardNever(m) == FALSE
RenormGuardAlways(m) == TRUE
RenormGuard(m) == m > 0

\* x.astype(np.complex64)
\* mutant: the copy loses the last sample
AsComplex64Truncated(a) == [i \in DOMAIN a \ {Len(a) - 1} |-> Cx(a[i].re, a[i].im)]
AsComplex64(a) == [i \in DOMAIN a |-> Cx(a[i].re, a[i].im)]

\* the value sdr_delta_pulse returns for n >= 1
SdrDeltaPulse(n, amp, win, cen) ==
    LET x1 == Centered(Ifft(Ones(n)), cen)
        x2 == Rescale(x1, MaxAbs(x1), amp)
        xw == Times(x2, Hanning(n))
        mv == MaxAbs(xw)
        x3 == IF win THEN (IF RenormGuard(mv) THEN Rescale(xw, mv, amp) ELSE xw) ELSE x2
    IN  AsComplex64(x3)

\* ------------------------------------------------------------------ state
VARIABLES N, amplitude, window, center, pc, X, x, w, peak, max_val, result, error, zerodiv

vars == <<N, amplitude, window, center, pc, X, x, w, peak, max_val, result, error, zerodiv>>
args == <<N, amplitude, window, center>>

Lengths == (0 - MaxNeg)..MaxN
Amplitudes == {AmpOf(t) : t \in (0 - MaxAmpTenths)..MaxAmpTenths}

Init ==
    /\ N \in Lengths
    /\ amplitude \in Amplitudes
    /\ window \in BOOLEAN
    /\ center \in BOOLEAN
    /\ pc = "ones"
    /\ X = Empty
    /\ x = Empty
    /\ w = Hanning(0)
    /\ peak = 0
    /\ max_val = 0
    /\ result = Empty
    /\ error = "None"
    /\ zerodiv = FALSE

\* X = np.ones(N, dtype=np.complex64)
MakeSpectrum ==
    /\ pc = "ones"
    /\ IF OnesRaises(N)
       THEN /\ pc' = "raised"
            /\ error' = "ValueError"
            /\ X' = X
       ELSE /\ pc' = "ifft"
            /\ error' = error
            /\ X' = Ones(N)
    /\ UNCHANGED <<args, x, w, peak, max_val, result, zerodiv>>

\* x = np.fft.ifft(X)
InverseTransform ==
    /\ pc = "ifft"
    /\ IF IfftRaises(X)
       THEN /\ pc' = "raised"
            /\ error' = "ValueError"
            /\ x' = x
       ELSE /\ pc' = "center"
            /\ error' = error
            /\ x' = Ifft(X)
    /\ UNCHANGED <<args, X, w, peak, max_val, result, zerodiv>>

\* if center: x = np.fft.fftshift(x)
Center ==
    /\ pc = "center"
    /\ x' = Centered(x, center)
    /\ pc' = "normalize"
    /\ UNCHANGED <<args, X, w, peak, max_val, result, error, zerodiv>>

\* x = x / np.max(np.abs(x)) * amplitude
Normalize ==
    /\ pc = "normalize"
    /\ peak' = MaxAbs(x)
    /\ zerodiv' = (zerodiv \/ peak' = 0)
    /\ x' = Rescale(x, peak', amplitude)
    /\ pc' = "window"
    /\ UNCHANGED <<args, X, w, max_val, result, error>>

\* if window: w = np.hanning(N); x = x * w
Window ==
    /\ pc = "window"
    /\ IF window
       THEN /\ w' = Hanning(N)
            /\ x' = Times(x, w')
            /\ pc' = "renorm"
       ELSE /\ w' = w
            /\ x' = x
            /\ pc' = "return"
    /\ UNCHANGED <<args, X, peak, max_val, result, error, zerodiv>>

\* max_val = np.max(np.abs(x)); if max_val > 0: x = x / max_val * amplitude
Renormalize ==
    /\ pc = "renorm"
    /\ max_val' = MaxAbs(x)
    /\ IF RenormGuard(max_val')
       THEN /\ x' = Rescale(x, max_val', amplitude)
            /\ zerodiv' = (zerodiv \/ max_val' = 0)
       ELSE /\ x' = x
            /\ zerodiv' = zerodiv
    /\ pc' = "return"
    /\ UNCHANGED <<args, X, w, peak, result, error>>

\* return x.astype(np.complex64)
Return ==
    /\ pc = "return"
    /\ result' = AsComplex64(x)
    /\ pc' = "done"
    /\ UNCHANGED <<args, X, x, w, peak, max_val, error, zerodiv>>

Next ==
    \/ MakeSpectrum
    \/ InverseTransform
    \/ Center
    \/ Normalize
    \/ Window
    \/ Renormalize
    \/ Return

Spec == Init /\ [][Next]_vars

\* -------------------------------------------------------------- helpers
Done == pc = "done"
Mag(i) == CAbs(result[i])
\* the indices of result whose magnitude is the largest
PeakIndices == {i \in DOMAIN result : \A j \in DOMAIN result : Mag(j) <= Mag(i)}

\* ---------------------------------------------------------------- claims

C2_InvalidLength ==
    N < 1 =>
        /\ pc \in {"ones", "ifft", "raised"}
        /\ pc = "ones" => (OnesRaises(N) \/ IfftRaises(Ones(N)))
        /\ pc = "ifft" => IfftRaises(X)
        /\ pc = "raised" => error = "ValueError"
        /\ Len(result) = 0
C2_Witness == N = 0 /\ pc = "raised" /\ error = "ValueError" /\ Len(X) = 0 /\ Len(result) = 0

C4_PeakAtZero == (Done /\ ~window /\ ~center /\ amplitude > 0) => PeakIndices = {0}
C4_Witness ==
    /\ Done /\ ~window /\ ~center /\ N = MaxN /\ amplitude > 0
    /\ Mag(0) = amplitude /\ \A i \in 1..(N - 1) : Mag(i) < amplitude

\* C5 as stated: sdr_delta_pulse(8, 1.0, False, False) returns 8 equal
\* samples, each 1.0 + 0.0j.
C5_Original ==
    (Done /\ N = 8 /\ amplitude = Scale /\ ~window /\ ~center) =>
        \A i \in DOMAIN result : result[i] = Cx(Scale, 0)

\* C5 amended: sdr_delta_pulse(8, 1.0, False, False) returns 8 samples of
\* which sample 0 is 1.0 + 0.0j and the other seven are zero.
C5_Impulse ==
    (Done /\ N = 8 /\ amplitude = Scale /\ ~window /\ ~center) =>
        /\ DOMAIN result = 0..7
        /\ result[0] = Cx(Scale, 0)
        /\ \A i \in 1..7 : result[i] = CZero
C5_Witness ==
    /\ Done /\ N = 8 /\ amplitude = Scale /\ ~window /\ ~center
    /\ result[0].re = Scale /\ result[7].re = 0

\* C6: for N = 1 and every window and center value the call raises nothing,
\* divides by no zero, uses a window of one non-zero tap, and returns one
\* sample whose magnitude is the requested amplitude.
C6_LengthOne ==
    N = 1 =>
        /\ pc # "raised"
        /\ ~zerodiv
        /\ (window /\ pc \in {"renorm", "return", "done"}) => (Len(w) = 1 /\ w[0] # 0)
        /\ Done => (DOMAIN result = {0} /\ (amplitude >= 0 => Mag(0) = amplitude))
C6_Witness ==
    /\ Done /\ N = 1 /\ amplitude = AmpOf(8) /\ window /\ center
    /\ Len(w) = 1 /\ Mag(0) = AmpOf(8)

\* C7: with amplitude = 0 and N >= 1 the call returns normally and every
\* returned sample has magnitude 0.
C7_ZeroAmplitude ==
    (amplitude = 0 /\ N >= 1) =>
        /\ pc # "raised"
        /\ ~zerodiv
        /\ Done => \A i \in DOMAIN result : Mag(i) = 0
C7_Witness ==
    /\ Done /\ amplitude = 0 /\ window /\ center /\ N = 4
    /\ Len(result) = 4 /\ MaxAbs(result) = 0

\* C8: for every N >= 1 the returned sequence has exactly N elements.
C8_Length == Done => (N >= 1 /\ DOMAIN result = 0..(N - 1) /\ Len(result) = N)
C8_Witness == Done /\ N = MaxN /\ window /\ Len(result) = MaxN

\* C9 as stated: for a > 0, sdr_delta_pulse(N, -a, window, center) is the
\* elementwise negation of sdr_delta_pulse(N, a, window, center).
C9_Original ==
    (Done /\ amplitude < 0) => result = Neg(SdrDeltaPulse(N, 0 - amplitude, window, center))

\* C9 amended: for a > 0, with window = false the result for -a is the
\* elementwise negation of the result for a; with window = true the result
\* for -a equals the result for a (the two rescalings cancel the sign).
C9_SignOfAmplitude ==
    (Done /\ amplitude < 0) =>
        IF window
        THEN result = SdrDeltaPulse(N, 0 - amplitude, window, center)
        ELSE result = Neg(SdrDeltaPulse(N, 0 - amplitude, window, center))
C9_Witness ==
    /\ Done /\ amplitude < 0 /\ window /\ center /\ N = 4
    /\ result[2].re = 0 - amplitude

\* C10: no call with N >= 1 divides by zero: the maximum magnitude used by
\* the first rescaling is non-zero, and the second rescaling is skipped when
\* the windowed maximum magnitude is zero.
C10_NoZeroDivide ==
    /\ ~zerodiv
    /\ pc \in {"window", "renorm", "return", "done"} => peak > 0
    /\ (pc \in {"return", "done"} /\ window /\ max_val = 0) =>
           x = Times(Rescale(Centered(Ifft(X), center), peak, amplitude), w)
C10_Witness ==
    /\ Done /\ window /\ ~center /\ N = 4 /\ amplitude > 0
    /\ peak = Scale /\ max_val = 0
====
